---- MODULE Spec2Model ----
(***************************************************************************)
(* A model of the u-root command (src/u-root.go): the flag-backed          *)
(* configuration, Main's setup sequence with its deferred cleanups, the    *)
(* call into uroot.CreateInitramfs (builder, dependency resolver and       *)
(* archive merge, which live outside this file and are modelled from the   *)
(* design specification), and writeBuildStats.                             *)
(***************************************************************************)
EXTENDS Naturals, Sequences, FiniteSets

\* ---------------------------------------------------------------- bounds

\* Longest list of positional arguments (flag.Args()).
MaxArgs == 2
\* Longest -uinitcmd string, in characters.
MaxUinitLen == 3
\* Longest -files list.
MaxExtra == 1
\* Number of distinct stats labels; a label is modelled by its rank in
\* strings.Compare order, so label 1 < label 2 < ...
MaxLabel == 3
\* Longest stats file found on disk before the first call.
MaxFileLen == 2

\* ------------------------------------------------------------- utilities

SeqsUpTo(S, n) == UNION {[1..k -> S] : k \in 0..n}

Range(s) == {s[i] : i \in DOMAIN s}

RECURSIVE Flatten(_)
Flatten(ss) == IF ss = <<>> THEN <<>> ELSE Head(ss) \o Flatten(Tail(ss))

\* ------------------------------------------------------------- variables

VARIABLES
    \* the flag-backed configuration and the toolchain environment
    format, outputPath, base, tmpDir, build, noCommands, args,
    useExistingInit, initCmd, defaultShell, uinitCmd, extraFiles, goEnvEmpty,
    \* Main: position, locals, pending deferred removal, returned error
    pc, result, w, baseFile, tempDir, deferRemoveAll, c, opts, steps,
    \* the file system: existing directories, directories the tool removed
    dirs, removed,
    \* CreateInitramfs: calls, compiles in flight, completion order,
    \* builders run, records written to the Writer, Writer finished
    calls, inflight, completed, builderRuns, written, finished,
    \* the stats file and the bookkeeping of the last writeBuildStats call
    statsFile, prevFile, lastStats, startSorted

flagVars == <<format, outputPath, base, tmpDir, build, noCommands, args,
              useExistingInit, initCmd, defaultShell, uinitCmd, extraFiles,
              goEnvEmpty>>
mainVars == <<pc, result, w, baseFile, tempDir, deferRemoveAll, c, opts, steps>>
fsVars == <<dirs, removed>>
createVars == <<calls, inflight, completed, builderRuns, written, finished>>
statsVars == <<statsFile, prevFile, lastStats, startSorted>>
vars == <<flagVars, mainVars, fsVars, createVars, statsVars>>

\* ------------------------------------------------- configuration domains

\* -format: "cpio" is the archiver the format plugin knows, "zip" is not.
Formats == {"cpio", "zip"}
\* -o: empty means "derive the path from GOOS and GOARCH".
OutputPaths == {"", "out.cpio"}
\* -base: empty means "use the default skeleton".
Bases == {"", "base.cpio"}
\* -tmpdir: empty means "create one".
TmpDirs == {"", "/user/tmp"}
\* -build.
Builds == {"bb", "binary", "source", "gobusybox"}
\* Positional arguments: a package, or the name of a template.
ArgNames == {"foo", "minimal"}
\* Characters of a -uinitcmd string.
Chars == {"a", " "}
\* -initcmd and -defaultsh.
InitCmds == {"", "init"}
Shells == {"", "elvish"}
\* -files.
ExtraPaths == {"/bin/foo", "/bin/sh"}

\* The directory ioutil.TempDir("", "u-root") creates.
CreatedTempDir == "/tmp/u-root1"
\* The path line 226 derives when -o is empty.
DerivedOutputPath == "/tmp/initramfs.linux_amd64.cpio"

\* templates (declared elsewhere in package main): template name -> packages.
templates == [t \in {"minimal"} |-> <<"init">>]

\* The package list used when none is given (line 291).
DefaultPkgs == <<"core/*">>

\* --------------------------------------------------------------- records

Rec(p, s, l) == [path |-> p, src |-> s, link |-> l]

\* uroot.DefaultRamfs(): a couple of directories.
DefaultRamfs == <<Rec("/bin", "skeleton", ""), Rec("/etc", "skeleton", "")>>

\* An initramfs.Reader: nil until Main obtains one, then the records it yields.
NoReader == [open |-> FALSE, records |-> <<>>]
Reader(recs) == [open |-> TRUE, records |-> recs]

\* What a base archive on disk may hold.
BaseContents ==
    { <<>>,
      <<Rec("/init", "base", "")>>,
      <<Rec("/bin/foo", "base", "")>>,
      <<Rec("/bin/foo", "base", ""), Rec("/init", "base", "")>> }

\* ------------------------------------------------------------------ Init

StatsIdle ==
    /\ statsFile = <<>>
    /\ prevFile = <<>>
    /\ lastStats = [Label |-> 0, Data |-> 0]
    /\ startSorted = TRUE

MainStart ==
    /\ pc = "start"
    /\ result = "none"
    /\ w = "nil"
    /\ baseFile = NoReader
    /\ tempDir = ""
    /\ deferRemoveAll = FALSE
    /\ c = <<>>
    /\ opts = [set |-> FALSE]
    /\ steps = <<>>
    /\ removed = {}
    /\ calls = 0
    /\ inflight = {}
    /\ completed = <<>>
    /\ builderRuns = <<>>
    /\ written = <<>>
    /\ finished = FALSE

\* flag.Parse() has run: every flag holds a value the user gave, from the
\* sets F names. The environment is consulted only when -o is empty, the
\* user's directory only when -tmpdir names it.
InitWith(F) ==
    /\ format \in F.formats
    /\ outputPath \in F.outs
    /\ goEnvEmpty \in (IF outputPath = "" THEN BOOLEAN ELSE {FALSE})
    /\ base \in F.bases
    /\ tmpDir \in F.tmps
    /\ dirs \in (IF tmpDir = "" THEN {{}} ELSE {{}, {tmpDir}})
    /\ build \in F.builds
    /\ noCommands \in F.nocmds
    /\ args \in F.arglists
    /\ useExistingInit \in F.useinits
    /\ initCmd \in F.inits
    /\ defaultShell \in F.shells
    /\ uinitCmd \in F.uinits
    /\ extraFiles \in F.extras
    /\ MainStart
    /\ StatsIdle

\* Every setup path of Main, with the flag defaults for the symlinks and no
\* extra files.
Init ==
    InitWith([formats |-> Formats, outs |-> OutputPaths, bases |-> Bases,
              tmps |-> TmpDirs, builds |-> Builds, nocmds |-> BOOLEAN,
              arglists |-> SeqsUpTo(ArgNames, MaxArgs),
              useinits |-> {FALSE}, inits |-> {"init"},
              shells |-> {"elvish"}, uinits |-> {<<>>}, extras |-> {<<>>}])

\* Every record source of the merge, on the setup path that reaches it.
InitMerge ==
    InitWith([formats |-> {"cpio"}, outs |-> {"out.cpio"}, bases |-> Bases,
              tmps |-> {""}, builds |-> {"bb", "binary"}, nocmds |-> BOOLEAN,
              arglists |-> SeqsUpTo(ArgNames, MaxArgs),
              useinits |-> BOOLEAN, inits |-> InitCmds, shells |-> Shells,
              uinits |-> {<<>>, <<"a">>},
              extras |-> SeqsUpTo(ExtraPaths, MaxExtra)])

\* Every symlink option, on the setup path that reaches uroot.Opts.
InitOpts ==
    InitWith([formats |-> {"cpio"}, outs |-> {"out.cpio"}, bases |-> {""},
              tmps |-> {""}, builds |-> {"binary"}, nocmds |-> BOOLEAN,
              arglists |-> {<<"foo">>},
              useinits |-> BOOLEAN, inits |-> InitCmds, shells |-> Shells,
              uinits |-> SeqsUpTo(Chars, MaxUinitLen), extras |-> {<<>>}])

\* ------------------------------------------------------------------ Main

\* One entry per step of Main that ran, with the error it ended in.
Log(step, err) == Append(steps, [step |-> step, err |-> err])

\* A return from Main with a bug a shadowed err would cause: nil is returned.
ReturnNil(err) ==
    /\ pc' = "done"
    /\ result' = "nil"
    /\ dirs' = IF deferRemoveAll THEN dirs \ {tempDir} ELSE dirs
    /\ removed' = IF deferRemoveAll THEN removed \cup {tempDir} ELSE removed

\* A return from Main: the deferred os.RemoveAll(tempDir) of line 252 runs
\* when it was registered.
Return(err) ==
    /\ pc' = "done"
    /\ result' = err
    /\ dirs' = IF deferRemoveAll THEN dirs \ {tempDir} ELSE dirs
    /\ removed' = IF deferRemoveAll THEN removed \cup {tempDir} ELSE removed

\* initramfs.GetArchiver(*format), lines 215-218.
GetArchiver ==
    /\ pc = "start"
    /\ LET err == IF format = "cpio" THEN "nil" ELSE "unsupported format" IN
         /\ steps' = Log("format", err)
         /\ IF err # "nil"
            THEN Return(err)
            ELSE /\ pc' = "open"
                 /\ UNCHANGED <<result, dirs, removed>>
    /\ UNCHANGED <<flagVars, w, baseFile, tempDir, deferRemoveAll, c, opts,
                   createVars, statsVars>>

\* Lines 221-231: derive the output path when none was given, then open the
\* Writer on it.
OpenWriter ==
    /\ pc = "open"
    /\ IF outputPath = "" /\ goEnvEmpty
       THEN /\ steps' = Log("output", "no path, GOOS and GOARCH")
            /\ Return("no path, GOOS and GOARCH")
            /\ UNCHANGED <<outputPath, w>>
       ELSE /\ outputPath' = IF outputPath = "" THEN DerivedOutputPath
                             ELSE outputPath
            /\ \E err \in {"nil", "open writer"} :
                 /\ steps' = Log("output", err)
                 /\ IF err # "nil"
                    THEN /\ Return(err)
                         /\ UNCHANGED w
                    ELSE /\ w' = "open"
                         /\ pc' = "base"
                         /\ UNCHANGED <<result, dirs, removed>>
    /\ UNCHANGED <<format, base, tmpDir, build, noCommands, args,
                   useExistingInit, initCmd, defaultShell, uinitCmd,
                   extraFiles, goEnvEmpty>>
    /\ UNCHANGED <<baseFile, tempDir, deferRemoveAll, c, opts, createVars,
                   statsVars>>

\* Lines 233-243: the Reader Main hands on, given what the base archive on
\* disk holds: the archive's records, or the default skeleton's.
BaseReader(content) ==
    IF base # "" THEN Reader(content) ELSE Reader(DefaultRamfs)

OpenBase ==
    /\ pc = "base"
    /\ IF base # ""
       THEN \E err \in {"nil", "open base"} :
              /\ steps' = Log("base", err)
              /\ IF err # "nil"
                 THEN /\ Return(err)
                      /\ UNCHANGED baseFile
                 ELSE /\ \E content \in BaseContents :
                           baseFile' = BaseReader(content)
                      /\ pc' = "tmp"
                      /\ UNCHANGED <<result, dirs, removed>>
       ELSE /\ steps' = Log("base", "nil")
            /\ baseFile' = BaseReader(<<>>)
            /\ pc' = "tmp"
            /\ UNCHANGED <<result, dirs, removed>>
    /\ UNCHANGED <<flagVars, w, tempDir, deferRemoveAll, c, opts, createVars,
                   statsVars>>

\* A removal deferred for every workspace, the user's own included.
DeferRegisteredAlways == TRUE

\* Line 252: os.RemoveAll is deferred only in the branch that created the
\* directory (tempDir == "").
DeferRegistered == tmpDir = ""

\* Lines 245-257: the temporary workspace.
AcquireWorkspace ==
    /\ pc = "tmp"
    /\ IF tmpDir = ""
       THEN \E err \in {"nil", "tempdir"} :
              /\ steps' = Log("workspace", err)
              /\ IF err # "nil"
                 THEN /\ Return(err)
                      /\ UNCHANGED <<tempDir, deferRemoveAll>>
                 ELSE /\ tempDir' = CreatedTempDir
                      /\ dirs' = dirs \cup {CreatedTempDir}
                      /\ deferRemoveAll' = DeferRegistered
                      /\ pc' = "builder"
                      /\ UNCHANGED <<result, removed>>
       ELSE IF tmpDir \notin dirs
       THEN \E err \in {"nil", "mkdir"} :
              /\ steps' = Log("workspace", err)
              /\ IF err # "nil"
                 THEN /\ Return(err)
                      /\ tempDir' = tmpDir
                      /\ UNCHANGED deferRemoveAll
                 ELSE /\ tempDir' = tmpDir
                      /\ dirs' = dirs \cup {tmpDir}
                      /\ deferRemoveAll' = DeferRegistered
                      /\ pc' = "builder"
                      /\ UNCHANGED <<result, removed>>
       ELSE /\ steps' = Log("workspace", "nil")
            /\ tempDir' = tmpDir
            /\ deferRemoveAll' = DeferRegistered
            /\ pc' = "builder"
            /\ UNCHANGED <<result, dirs, removed>>
    /\ UNCHANGED <<flagVars, w, baseFile, c, opts, createVars, statsVars>>

\* A builder switch whose default case falls back to the bb builder.
LookupBuilderLenient(name) ==
    IF name = "binary" THEN [b |-> "binary", err |-> "nil"]
    ELSE IF name = "source" THEN [b |-> "", err |-> "source mode deprecated"]
    ELSE [b |-> "bb", err |-> "nil"]

\* The switch of lines 265-274.
LookupBuilder(name) ==
    IF name = "bb" THEN [b |-> "bb", err |-> "nil"]
    ELSE IF name = "binary" THEN [b |-> "binary", err |-> "nil"]
    ELSE IF name = "source" THEN [b |-> "", err |-> "source mode deprecated"]
    ELSE [b |-> "", err |-> "could not find builder"]

\* The loop of lines 282-289: a template name is replaced by its packages.
ExpandArgs(a) ==
    Flatten([i \in DOMAIN a |->
               IF a[i] \in DOMAIN templates THEN templates[a[i]] ELSE <<a[i]>>])

\* Lines 281-289 without the default of lines 290-292.
ResolvePkgsNoDefault(a) == ExpandArgs(a)

\* Lines 281-292: the package list handed to the builder.
ResolvePkgs(a) == IF Len(ExpandArgs(a)) = 0 THEN DefaultPkgs ELSE ExpandArgs(a)

\* Lines 259-300: the builder and its package list, unless -nocmd.
SelectBuilder ==
    /\ pc = "builder"
    /\ IF noCommands
       THEN /\ pc' = "opts"
            /\ UNCHANGED <<c, steps, result, dirs, removed>>
       ELSE LET r == LookupBuilder(build) IN
              /\ steps' = Log("builder", r.err)
              /\ IF r.err # "nil"
                 THEN /\ Return(r.err)
                      /\ UNCHANGED c
                 ELSE /\ c' = Append(c, [Builder |-> r.b,
                                         Packages |-> ResolvePkgs(args)])
                      /\ pc' = "opts"
                      /\ UNCHANGED <<result, dirs, removed>>
    /\ UNCHANGED <<flagVars, w, baseFile, tempDir, deferRemoveAll, opts,
                   createVars, statsVars>>

\* ------------------------------------------------ shlex and uroot.Opts

\* A string of characters as one string value.
RECURSIVE Str(_)
Str(cs) == IF cs = <<>> THEN "" ELSE Head(cs) \o Str(Tail(cs))

\* shlex.Argv: the string cut at white space into tokens; cur is the token
\* being read, begun records that one was begun.
RECURSIVE Split(_, _, _)
Split(cs, cur, begun) ==
    IF cs = <<>>
    THEN IF begun THEN <<cur>> ELSE <<>>
    ELSE IF Head(cs) = " "
    THEN (IF begun THEN <<cur>> ELSE <<>>) \o Split(Tail(cs), "", FALSE)
    ELSE Split(Tail(cs), cur \o Head(cs), TRUE)

Argv(cs) == Split(cs, "", FALSE)

\* Lines 314-320 with the slice taken one element too early.
UinitFieldsAll(toks) ==
    [UinitCmd |-> IF Len(toks) > 0 THEN toks[1] ELSE "",
     UinitArgs |-> IF Len(toks) > 1 THEN toks ELSE <<>>]

\* Lines 314-320: the first token is the command, the rest its arguments.
UinitFields(toks) ==
    [UinitCmd |-> IF Len(toks) > 0 THEN toks[1] ELSE "",
     UinitArgs |-> IF Len(toks) > 1 THEN Tail(toks) ELSE <<>>]

\* Lines 310-311: the init and shell targets, as given.
SymlinkFields ==
    [InitCmd |-> initCmd, DefaultShell |-> defaultShell]

\* Lines 302-313 with the extra files left out.
FileFieldsNoExtra ==
    [Commands |-> c, ExtraFiles |-> <<>>, BaseArchive |-> baseFile]

\* Lines 304-308: the record sources handed to CreateInitramfs.
FileFields ==
    [Commands |-> c, ExtraFiles |-> extraFiles, BaseArchive |-> baseFile]

\* Lines 302-320: the uroot.Opts value.
MainOpts ==
    [set |-> TRUE,
     Commands |-> FileFields.Commands,
     TempDir |-> tempDir,
     ExtraFiles |-> FileFields.ExtraFiles,
     OutputFile |-> w,
     BaseArchive |-> FileFields.BaseArchive,
     UseExistingInit |-> useExistingInit,
     InitCmd |-> SymlinkFields.InitCmd,
     DefaultShell |-> SymlinkFields.DefaultShell,
     UinitCmd |-> UinitFields(Argv(uinitCmd)).UinitCmd,
     UinitArgs |-> UinitFields(Argv(uinitCmd)).UinitArgs]

\* --------------------------------------------------------------- Builder

\* Command names in name order.
NameOrder == <<"foo", "init">>

\* The commands a package list resolves to: a glob names every command under
\* it, any other package names one command.
CommandsOf(pkgs) ==
    Flatten([i \in DOMAIN pkgs |->
               IF pkgs[i] = "core/*" THEN NameOrder ELSE <<pkgs[i]>>])

\* Two packages resolve to one command name.
Collides(cmds) ==
    \E i, j \in DOMAIN cmds : i # j /\ cmds[i] = cmds[j]

\* Where a strategy installs a command.
InstallPath(b, name) ==
    IF b = "bb" THEN "/bbin/" \o name ELSE "/bin/" \o name

\* The record of one command: a symlink to the multiplexed binary, or the
\* command's own binary.
CommandRecord(b, name) ==
    Rec(InstallPath(b, name), "cmd", IF b = "bb" THEN "bb" ELSE "")

\* The group's records taken in the order the compiles finished.
CommandRecordsAsFinished(g, done) ==
    (IF g.Builder = "bb" THEN <<Rec("/bbin/bb", "cmd", "")>> ELSE <<>>)
    \o [i \in DOMAIN done |->
          CommandRecord(g.Builder, CommandsOf(g.Packages)[done[i]])]

\* The group's records: the multiplexed binary first (bb), then one record
\* per command, ordered by command name, whatever order the compiles
\* finished in.
CommandRecords(g, done) ==
    LET cmds == CommandsOf(g.Packages)
        built == {cmds[done[i]] : i \in DOMAIN done}
        names == SelectSeq(NameOrder, LAMBDA n : n \in built)
    IN (IF g.Builder = "bb" THEN <<Rec("/bbin/bb", "cmd", "")>> ELSE <<>>)
       \o [i \in DOMAIN names |-> CommandRecord(g.Builder, names[i])]

\* ----------------------------------------------------------- Merge engine

HasPath(recs, p) == \E i \in DOMAIN recs : recs[i].path = p

\* A record laid over the records so far: it replaces the record at its
\* path, or is appended.
Overlay(recs, r) ==
    IF HasPath(recs, r.path)
    THEN [i \in DOMAIN recs |-> IF recs[i].path = r.path THEN r ELSE recs[i]]
    ELSE Append(recs, r)

RECURSIVE OverlayAll(_, _)
OverlayAll(recs, more) ==
    IF more = <<>> THEN recs
    ELSE OverlayAll(Overlay(recs, Head(more)), Tail(more))

\* The dependency resolver over the extra files, in the order listed.
ExtraRecords(files) == [i \in DOMAIN files |-> Rec(files[i], "extra", "")]

\* The generated symlinks; each is left out when its target is empty, and
\* /init also when the existing init is to be used and a base archive was
\* handed in: the base's init wins.
SymlinkRecords(o) ==
    (IF o.InitCmd # ""
        /\ ~(o.UseExistingInit /\ o.BaseArchive.open)
     THEN <<Rec("/init", "symlink", o.InitCmd)>> ELSE <<>>)
    \o (IF o.UinitCmd # ""
        THEN <<Rec("/bin/uinit", "symlink", o.UinitCmd)>> ELSE <<>>)
    \o (IF o.DefaultShell # ""
        THEN <<Rec("/bin/sh", "symlink", o.DefaultShell)>> ELSE <<>>)

\* Precedence, low to high: base, command groups, extra files, symlinks.
Merge(o, cmdRecs) ==
    OverlayAll(OverlayAll(OverlayAll(OverlayAll(<<>>, o.BaseArchive.records),
                                     cmdRecs),
                          ExtraRecords(o.ExtraFiles)),
               SymlinkRecords(o))

\* ------------------------------------------------------- CreateInitramfs

SetLast(log, err) == [log EXCEPT ![Len(log)].err = err]

\* CreateInitramfs starts the group's builder: an empty package list or
\* (bb) a name collision is a ConfigError, otherwise every command's compile
\* is started; with no group it goes on to the files.
StartBuild(o) ==
    IF o.Commands = <<>>
    THEN /\ pc' = "files"
         /\ steps' = Log("create", "running")
         /\ UNCHANGED <<result, dirs, removed, inflight, builderRuns>>
    ELSE LET g == o.Commands[1]
             cmds == CommandsOf(g.Packages)
         IN /\ builderRuns' = Append(builderRuns, g)
            /\ IF g.Packages = <<>> \/ (g.Builder = "bb" /\ Collides(cmds))
               THEN /\ steps' = Log("create", "ConfigError")
                    /\ Return("ConfigError")
                    /\ UNCHANGED inflight
               ELSE /\ steps' = Log("create", "running")
                    /\ inflight' = DOMAIN cmds
                    /\ pc' = "compile"
                    /\ UNCHANGED <<result, dirs, removed>>

\* Lines 302-321: Main builds the options and calls uroot.CreateInitramfs.
CreateInitramfs ==
    /\ pc = "opts"
    /\ opts' = MainOpts
    /\ calls' = calls + 1
    /\ StartBuild(MainOpts)
    /\ UNCHANGED <<flagVars, w, baseFile, tempDir, deferRemoveAll, c,
                   completed, written, finished, statsVars>>

\* One compile finishes; the last one ends the builder's run.
CompileDone(i) ==
    /\ pc = "compile"
    /\ i \in inflight
    /\ inflight' = inflight \ {i}
    /\ completed' = Append(completed, i)
    /\ pc' = IF inflight = {i} THEN "files" ELSE "compile"
    /\ UNCHANGED <<flagVars, result, w, baseFile, tempDir, deferRemoveAll, c,
                   opts, steps, fsVars, calls, builderRuns, written, finished,
                   statsVars>>

\* One compile fails: the others are cancelled, what was built is dropped.
CompileFail(i) ==
    /\ pc = "compile"
    /\ i \in inflight
    /\ inflight' = {}
    /\ completed' = <<>>
    /\ steps' = SetLast(steps, "CompileError")
    /\ Return("CompileError")
    /\ UNCHANGED <<flagVars, w, baseFile, tempDir, deferRemoveAll, c, opts,
                   calls, builderRuns, written, finished, statsVars>>

\* The records of the build groups (Main configures at most one).
GroupRecords(o, done) ==
    IF o.Commands = <<>> THEN <<>> ELSE CommandRecords(o.Commands[1], done)

\* The resolver runs over the extra files, then the merge writes every
\* record to the Writer and finishes it.
MergeArchive ==
    /\ pc = "files"
    /\ \E err \in {"nil", "ResolutionError", "ArchiveError"} :
         /\ steps' = SetLast(steps, err)
         /\ Return(err)
         /\ IF err = "nil"
            THEN /\ written' = Merge(opts, GroupRecords(opts, completed))
                 /\ finished' = TRUE
            ELSE UNCHANGED <<written, finished>>
    /\ UNCHANGED <<flagVars, w, baseFile, tempDir, deferRemoveAll, c, opts,
                   calls, inflight, completed, builderRuns, statsVars>>

\* ------------------------------------------------------ writeBuildStats

\* A buildStats value: its label, and its other fields (time, duration,
\* output size) as one datum.
Labels == 1..MaxLabel
Data == {1, 2}
Entries == [Label : Labels, Data : Data]

\* Index of the first entry with the label, 0 when there is none: the loop
\* of lines 102-108.
RECURSIVE FindLabel(_, _, _)
FindLabel(all, label, i) ==
    IF i > Len(all) THEN 0
    ELSE IF all[i].Label = label THEN i
    ELSE FindLabel(all, label, i + 1)

RemoveAt(s, i) == SubSeq(s, 1, i - 1) \o SubSeq(s, i + 1, Len(s))

\* sort.Slice by label (lines 111-113): it is not stable, so entries with
\* equal labels may end in any order.
RECURSIVE SortSlice(_)
SortSlice(all) ==
    IF all = <<>> THEN {<<>>}
    ELSE LET least == {i \in DOMAIN all :
                         \A j \in DOMAIN all : all[i].Label <= all[j].Label}
         IN UNION {{<<all[i]>> \o rest : rest \in SortSlice(RemoveAt(all, i))}
                   : i \in least}

\* writeBuildStats that appends whether or not the label is present.
appendStats(all, stats) == SortSlice(Append(all, stats))

\* Lines 101-114: the collections the call may store, given the one read.
upsertStats(all, stats) ==
    LET i == FindLabel(all, stats.Label, 1) IN
      IF i # 0 THEN {[all EXCEPT ![i] = stats]}
      ELSE SortSlice(Append(all, stats))

\* writeBuildStats, lines 96-123: read the file (an absent file reads as no
\* entries), upsert, write back. A call whose WriteFile fails returns the
\* error and stores nothing, which leaves every variable as it was.
writeBuildStats(stats) ==
    /\ pc = "done"
    /\ result = "nil"
    /\ statsFile' \in upsertStats(statsFile, stats)
    /\ prevFile' = statsFile
    /\ lastStats' = stats
    /\ UNCHANGED <<flagVars, mainVars, fsVars, createVars, startSorted>>

SortedByLabel(all) ==
    \A i, j \in DOMAIN all : i < j => all[i].Label <= all[j].Label

UniqueLabels(all) ==
    \A i, j \in DOMAIN all : i # j => all[i].Label # all[j].Label

\* The state in which main reaches the stats file (lines 159-163): Main has
\* returned nil from a run with the flag defaults and -nocmd.
MainReturned ==
    /\ format = "cpio"
    /\ outputPath = "out.cpio"
    /\ goEnvEmpty = FALSE
    /\ base = ""
    /\ tmpDir = ""
    /\ dirs = {}
    /\ build = "bb"
    /\ noCommands = TRUE
    /\ args = <<>>
    /\ useExistingInit = FALSE
    /\ initCmd = "init"
    /\ defaultShell = "elvish"
    /\ uinitCmd = <<>>
    /\ extraFiles = <<>>
    /\ pc = "done"
    /\ result = "nil"
    /\ w = "open"
    /\ baseFile = Reader(DefaultRamfs)
    /\ tempDir = CreatedTempDir
    /\ deferRemoveAll = TRUE
    /\ c = <<>>
    /\ opts = [set |-> TRUE, Commands |-> <<>>, TempDir |-> CreatedTempDir,
               ExtraFiles |-> <<>>, OutputFile |-> "open",
               BaseArchive |-> Reader(DefaultRamfs),
               UseExistingInit |-> FALSE, InitCmd |-> "init",
               DefaultShell |-> "elvish", UinitCmd |-> "", UinitArgs |-> <<>>]
    /\ steps = <<[step |-> "format", err |-> "nil"],
                 [step |-> "output", err |-> "nil"],
                 [step |-> "base", err |-> "nil"],
                 [step |-> "workspace", err |-> "nil"],
                 [step |-> "create", err |-> "nil"]>>
    /\ removed = {CreatedTempDir}
    /\ calls = 1
    /\ inflight = {}
    /\ completed = <<>>
    /\ builderRuns = <<>>
    /\ written = DefaultRamfs \o <<Rec("/init", "symlink", "init"),
                                   Rec("/bin/sh", "symlink", "elvish")>>
    /\ finished = TRUE

\* The stats file holds whatever was there before the first call.
InitStats ==
    /\ MainReturned
    /\ statsFile \in SeqsUpTo(Entries, MaxFileLen)
    /\ prevFile = statsFile
    /\ lastStats = [Label |-> 0, Data |-> 0]
    /\ startSorted = (SortedByLabel(statsFile) /\ UniqueLabels(statsFile))

NextStats == \E stats \in Entries : writeBuildStats(stats)

\* ------------------------------------------------------- specification

Next ==
    \/ GetArchiver
    \/ OpenWriter
    \/ OpenBase
    \/ AcquireWorkspace
    \/ SelectBuilder
    \/ CreateInitramfs
    \/ \E i \in inflight : CompileDone(i)
    \/ \E i \in inflight : CompileFail(i)
    \/ MergeArchive

Spec == Init /\ [][Next]_vars

SpecMerge == InitMerge /\ [][Next]_vars

SpecOpts == InitOpts /\ [][Next]_vars

SpecStats == InitStats /\ [][NextStats]_vars

\* ---------------------------------------------------------------- claims

Failed == pc = "done" /\ result # "nil"
Succeeded == pc = "done" /\ result = "nil"

\* The record the archive holds at a path.
At(recs, p) == CHOOSE r \in Range(recs) : r.path = p

\* C1: a run of Main that ends in an error has not opened the output Writer
\* and has written nothing to it.
C1_NoWriterOnError == Failed => (w = "nil" /\ written = <<>>)

WorkspaceAcquired ==
    \E i \in DOMAIN steps : steps[i].step = "workspace" /\ steps[i].err = "nil"

\* C2: a directory the user supplied is never removed by the tool; once Main
\* has returned after acquiring the workspace, a workspace the tool created
\* for want of -tmpdir is gone, and a user-supplied one is still there.
C2_WorkspaceReleased ==
    /\ tmpDir # "" => tmpDir \notin removed
    /\ (pc = "done" /\ WorkspaceAcquired) =>
          IF tmpDir = "" THEN CreatedTempDir \notin dirs ELSE tmpDir \in dirs

\* C2 witnesses: a run that failed in a compile, after the tool had created
\* its own workspace.
C2_Witness ==
    /\ pc = "done"
    /\ result = "CompileError"
    /\ tmpDir = ""
    /\ CreatedTempDir \in removed

\* C6, as claimed: a run whose build strategy is neither bb nor binary ends
\* in an error and never calls CreateInitramfs, whatever the other options.
C6_UnknownStrategyFails ==
    build \notin {"bb", "binary"} =>
        (calls = 0 /\ builderRuns = <<>> /\ (pc = "done" => result # "nil"))

\* C6, amended: the same for every run that builds commands (-nocmd not
\* given).
C6_UnknownStrategyFailsWhenBuilding ==
    (build \notin {"bb", "binary"} /\ ~noCommands) =>
        (calls = 0 /\ builderRuns = <<>> /\ (pc = "done" => result # "nil"))

\* C6 witness: a build of commands refused for its unknown strategy.
C6_Witness ==
    /\ pc = "done"
    /\ build = "gobusybox"
    /\ ~noCommands
    /\ result = "could not find builder"

\* C7, as claimed: a build with -nocmd not given and no package named
\* fails and produces no archive.
C7_EmptyListFails ==
    (pc = "done" /\ calls > 0 /\ ~noCommands /\ args = <<>>) =>
        (result # "nil" /\ ~finished)

\* C7, amended: Main never hands a builder an empty package list; with no
\* package named the list is the default one, and no builder runs on an
\* empty list.
C7_PackageListNeverEmpty ==
    /\ \A i \in DOMAIN c :
          /\ c[i].Packages # <<>>
          /\ args = <<>> => c[i].Packages = DefaultPkgs
    /\ \A i \in DOMAIN builderRuns : builderRuns[i].Packages # <<>>
    /\ (calls > 0 /\ ~noCommands) => Len(builderRuns) = 1

\* C7 witness: a build with no package named that ran the bb builder on the
\* default list and finished the archive.
C7_Witness ==
    /\ Succeeded
    /\ ~noCommands
    /\ args = <<>>
    /\ finished
    /\ builderRuns = <<[Builder |-> "bb", Packages |-> DefaultPkgs]>>

\* The fixed order of Main's steps.
StepOrder == <<"format", "output", "base", "workspace", "builder", "create">>
StepRank(name) == CHOOSE i \in DOMAIN StepOrder : StepOrder[i] = name
StepsRun == {steps[i].step : i \in DOMAIN steps}

\* C10: the steps run in the fixed order, each at most once; only the last
\* step run can have failed, and its error is what Main returns; nothing
\* runs after a failure; CreateInitramfs is called at most once, after every
\* earlier step has succeeded.
C10_StepsInOrder ==
    /\ \A i, j \in DOMAIN steps :
          i < j => StepRank(steps[i].step) < StepRank(steps[j].step)
    /\ \A i \in DOMAIN steps : i < Len(steps) => steps[i].err = "nil"
    /\ pc # "done" =>
          /\ result = "none"
          /\ \A i \in DOMAIN steps : steps[i].err \in {"nil", "running"}
    /\ pc = "done" => result = steps[Len(steps)].err
    /\ calls <= 1
    /\ calls = 1 <=> "create" \in StepsRun
    /\ calls = 1 =>
          /\ {"format", "output", "base", "workspace"} \subseteq StepsRun
          /\ ~noCommands => "builder" \in StepsRun

\* C10 witness: a run ended by the third step, the base archive that could
\* not be opened.
C10_Witness ==
    /\ pc = "done"
    /\ Len(steps) = 3
    /\ steps[3].step = "base"
    /\ result = "open base"
    /\ calls = 0
\* The paths each record source produces, read off the configuration.
BasePaths == {baseFile.records[i].path : i \in DOMAIN baseFile.records}
CmdPaths ==
    IF noCommands \/ LookupBuilder(build).err # "nil" THEN {}
    ELSE LET cmds == CommandsOf(ResolvePkgs(args)) IN
           {InstallPath(build, cmds[i]) : i \in DOMAIN cmds}
           \cup (IF build = "bb" THEN {"/bbin/bb"} ELSE {})
ExtraFilePaths == Range(extraFiles)
SymlinkPaths ==
    (IF initCmd # "" /\ ~useExistingInit THEN {"/init"} ELSE {})
    \cup (IF \E i \in DOMAIN uinitCmd : uinitCmd[i] # " "
          THEN {"/bin/uinit"} ELSE {})
    \cup (IF defaultShell # "" THEN {"/bin/sh"} ELSE {})

\* The source of highest precedence among those that produce the path.
Winner(p) ==
    IF p \in SymlinkPaths THEN {"symlink"}
    ELSE IF p \in ExtraFilePaths THEN {"extra"}
    ELSE IF p \in CmdPaths THEN {"cmd"}
    ELSE {"base", "skeleton"}

TokenStarts ==
    {i \in DOMAIN uinitCmd :
        uinitCmd[i] # " " /\ (i = 1 \/ uinitCmd[i - 1] = " ")}

RECURSIVE Concat(_)
Concat(strs) == IF strs = <<>> THEN "" ELSE Head(strs) \o Concat(Tail(strs))

\* C8: the options carry each target as given, so a symlink is requested
\* exactly when its own target is not empty; the uinit command is the first
\* token of the string and the arguments are the remaining tokens, none when
\* the string has no token; and the finished archive holds the uinit and
\* shell symlinks exactly when they were requested.
C8_SymlinkTargets ==
    opts.set =>
      /\ opts.InitCmd = initCmd
      /\ opts.DefaultShell = defaultShell
      /\ (opts.UinitCmd # "") <=> (TokenStarts # {})
      /\ Len(opts.UinitArgs) =
            (IF TokenStarts = {} THEN 0 ELSE Cardinality(TokenStarts) - 1)
      /\ \A i \in DOMAIN opts.UinitArgs : opts.UinitArgs[i] # ""
      /\ opts.UinitCmd \o Concat(opts.UinitArgs)
            = Str(SelectSeq(uinitCmd, LAMBDA ch : ch # " "))
      /\ finished =>
            /\ HasPath(written, "/bin/uinit") <=> (TokenStarts # {})
            /\ HasPath(written, "/bin/sh") <=> (defaultShell # "")
            /\ ~useExistingInit =>
                  (HasPath(written, "/init") <=> (initCmd # ""))

\* C8 witness: a finished archive with no init target, a shell target, and a
\* uinit command with one argument.
C8_Witness ==
    /\ Succeeded
    /\ finished
    /\ initCmd = ""
    /\ defaultShell # ""
    /\ uinitCmd = <<"a", " ", "a">>
    /\ opts.UinitCmd = "a"
    /\ opts.UinitArgs = <<"a">>
    /\ ~HasPath(written, "/init")
    /\ HasPath(written, "/bin/sh")

Called == lastStats.Label # 0

Count(all, e) == Cardinality({i \in DOMAIN all : all[i] = e})

\* What one call does to the collection: an entry with the label replaced
\* in place and nothing else touched, or one entry added.
UpsertDone ==
    IF \E i \in DOMAIN prevFile : prevFile[i].Label = lastStats.Label
    THEN \E i \in DOMAIN prevFile :
           /\ prevFile[i].Label = lastStats.Label
           /\ statsFile = [prevFile EXCEPT ![i] = lastStats]
    ELSE /\ Len(statsFile) = Len(prevFile) + 1
         /\ \A e \in Entries :
               Count(statsFile, e)
                 = Count(prevFile, e) + (IF e = lastStats THEN 1 ELSE 0)

\* C9, as claimed: after any call, whatever the file held at first, the
\* collection is sorted by label with one entry per label, and the call was
\* an upsert.
C9_SortedUniqueFromAnyFile ==
    Called =>
      (SortedByLabel(statsFile) /\ UniqueLabels(statsFile) /\ UpsertDone)

\* C9, amended: every call is an upsert; the collection is sorted by label
\* with one entry per label after any call when the file was absent, empty
\* or already so at first.
C9_SortedUniqueFromSortedFile ==
    /\ Called => UpsertDone
    /\ startSorted => (SortedByLabel(statsFile) /\ UniqueLabels(statsFile))

\* C9 witness: a replacement in a collection of two entries that began
\* absent or sorted.
C9_Witness ==
    /\ Called
    /\ startSorted
    /\ Len(statsFile) >= 2
    /\ Len(prevFile) = Len(statsFile)
    /\ prevFile # statsFile

====
